---- MODULE Spec2Model ----
(***************************************************************************)
(* Verification model of the AgentOps benchmark runner (src/runner.py):    *)
(* the soft grader grade_quality, the hard-gate validator                  *)
(* evaluate_hard_gates, the run loop run_benchmark and save_results.       *)
(*                                                                         *)
(* Text is a sequence of one-character strings.  A Python value is a       *)
(* tagged record [k |-> kind, v |-> payload].  A call that can raise       *)
(* returns a record with a field "raised".                                 *)
(***************************************************************************)
EXTENDS Integers, Sequences, FiniteSets, Bags, TLC

VARIABLES
    gq_judge,   \* grade_quality: what judge_llm.invoke(prompt) does
    gq_pc,      \* grade_quality: "call" before the call, "done" after it
    gq_ret,     \* grade_quality: outcome of the call
    hg_response,\* evaluate_hard_gates: argument response
    hg_rules,   \* evaluate_hard_gates: argument rules
    hg_pc,      \* evaluate_hard_gates: "start", "loop", "returned", "raised"
    hg_gates,   \* evaluate_hard_gates: the items the gate loop iterates
    hg_i,       \* evaluate_hard_gates: index of the next gate of the loop
    hg_json,    \* evaluate_hard_gates: response_json and json_valid
    hg_score,   \* evaluate_hard_gates: the score dict
    task_dir,   \* the tasks/ directory: file name -> loaded YAML, or missing
    tasks,      \* self.tasks
    results,    \* self.results, the run log
    pc,         \* position of __main__: "task", "agent", "gates", "judge",
                \* "append", "returned", "saved", "crashed" ("idle": not run)
    ti,         \* run_benchmark: index of the task of the outer loop
    ai,         \* run_benchmark: index of the agent of the inner loop
    agent_response, \* run_benchmark: local response
    error,      \* run_benchmark: local error
    hard_score, \* run_benchmark: local hard_score
    quality_score, \* run_benchmark: local quality_score
    calls,      \* the calls made so far to agents, validator and judge
    outputs,    \* the outputs/ directory: file name -> what the file holds
    clock,      \* the last reading of time.time(), in ticks
    run_no      \* how many times __main__ has been started

gradeVars == <<gq_judge, gq_pc, gq_ret>>

gateVars == <<hg_response, hg_rules, hg_pc, hg_gates, hg_i, hg_json, hg_score>>

loopVars == <<ti, ai, agent_response, error, hard_score, quality_score>>

runVars == <<task_dir, tasks, results, pc, loopVars, calls, outputs, clock, run_no>>

vars == <<gradeVars, gateVars, runVars>>

\* ------------------------------------------------------------------ bounds
MaxReplyLen == 3
MaxGates == 2
MaxClock == 3
MaxRuns == 2
TicksPerSecond == 2

\* -------------------------------------------------------------------- text
\* Characters a judge reply is built from: decimal digits, a letter, a
\* blank, and SUPERSCRIPT TWO (str.isdigit() is true of it, int() rejects it).
ReplyAlphabet == {"4", "5", "x", " ", "^2"}

DecimalDigits == {"0", "1", "2", "3", "4", "5", "6", "7", "8", "9"}

\* str.isdigit on one character
isdigit(c) == c \in DecimalDigits \cup {"^2"}

\* str.isspace on one character
isspace(c) == c \in {" ", "\n"}

DigitValue(c) ==
    CASE c = "0" -> 0 [] c = "1" -> 1 [] c = "2" -> 2 [] c = "3" -> 3
      [] c = "4" -> 4 [] c = "5" -> 5 [] c = "6" -> 6 [] c = "7" -> 7
      [] c = "8" -> 8 [] c = "9" -> 9

RECURSIVE lstrip(_)
lstrip(s) == IF s # <<>> /\ isspace(Head(s)) THEN lstrip(Tail(s)) ELSE s

RECURSIVE rstrip(_)
rstrip(s) ==
    IF s # <<>> /\ isspace(s[Len(s)]) THEN rstrip(SubSeq(s, 1, Len(s) - 1)) ELSE s

\* str.strip()
strip(s) == rstrip(lstrip(s))

\* ''.join(filter(str.isdigit, s))
filter_isdigit(s) == SelectSeq(s, isdigit)

RECURSIVE DecimalValue(_)
DecimalValue(s) ==
    IF s = <<>> THEN 0
    ELSE 10 * DecimalValue(SubSeq(s, 1, Len(s) - 1)) + DigitValue(s[Len(s)])

\* int(s) for a string s of characters that passed str.isdigit: ValueError
\* on the empty string and on a digit that is not a decimal digit.
int(s) ==
    IF s = <<>> \/ \E i \in 1..Len(s) : s[i] \notin DecimalDigits
    THEN [raised |-> TRUE, value |-> 0]
    ELSE [raised |-> FALSE, value |-> DecimalValue(s)]

\* ----------------------------------------------------------- Python values
None == [k |-> "none", v |-> 0]
Str(s) == [k |-> "str", v |-> s]
Num(n) == [k |-> "int", v |-> n]
Bool(b) == [k |-> "bool", v |-> b]
List(items) == [k |-> "list", v |-> items]
Dict(f) == [k |-> "dict", v |-> f]
EmptyDict == Dict([key \in {} |-> None])

\* d.get(key, default) on a dict value d
Get(d, key, default) == IF key \in DOMAIN d.v THEN d.v[key] ELSE default

\* isinstance(x, list), isinstance(x, dict)
IsList(x) == x.k = "list"
IsDict(x) == x.k = "dict"

UpperCase ==
    <<"A", "B", "C", "D", "E", "F", "G", "H", "I", "J", "K", "L", "M",
      "N", "O", "P", "Q", "R", "S", "T", "U", "V", "W", "X", "Y", "Z">>
LowerCase ==
    <<"a", "b", "c", "d", "e", "f", "g", "h", "i", "j", "k", "l", "m",
      "n", "o", "p", "q", "r", "s", "t", "u", "v", "w", "x", "y", "z">>

\* str.lower()
lower(s) ==
    [i \in 1..Len(s) |->
        IF \E n \in 1..26 : UpperCase[n] = s[i]
        THEN LowerCase[CHOOSE n \in 1..26 : UpperCase[n] = s[i]]
        ELSE s[i]]

\* s[i:] starts with prefix (i is 1-based)
StartsAt(s, i, prefix) ==
    /\ i + Len(prefix) - 1 <= Len(s)
    /\ \A n \in 1..Len(prefix) : s[i + n - 1] = prefix[n]

\* needle in hay, for two strings
Contains(hay, needle) == \E i \in 1..(Len(hay) + 1) : StartsAt(hay, i, needle)

RECURSIVE IntToText(_)
IntToText(n) ==
    LET digits == <<"0", "1", "2", "3", "4", "5", "6", "7", "8", "9">>
    IN  IF n < 0 THEN <<"-">> \o IntToText(0 - n)
        ELSE IF n < 10 THEN <<digits[n + 1]>>
        ELSE IntToText(n \div 10) \o <<digits[(n % 10) + 1]>>

RECURSIVE py_repr(_)
RECURSIVE JoinRepr(_)
\* ", ".join(repr(x) for x in items)
JoinRepr(items) ==
    IF items = <<>> THEN <<>>
    ELSE IF Len(items) = 1 THEN py_repr(items[1])
    ELSE py_repr(items[1]) \o <<",", " ">> \o JoinRepr(Tail(items))

\* repr(x); the strings of the model hold no quote and no backslash
py_repr(x) ==
    CASE x.k = "str" -> <<"'">> \o x.v \o <<"'">>
      [] x.k = "int" -> IntToText(x.v)
      [] x.k = "bool" -> IF x.v THEN <<"T", "r", "u", "e">>
                         ELSE <<"F", "a", "l", "s", "e">>
      [] x.k = "none" -> <<"N", "o", "n", "e">>
      [] x.k = "list" -> <<"[">> \o JoinRepr(x.v) \o <<"]">>
      [] x.k = "dict" -> <<"{", ".", ".", ".", "}">>

\* str(x), also what an f-string puts for {x}
py_str(x) == IF x.k = "str" THEN x.v ELSE py_repr(x)

\* ------------------------------------------------------------- json.loads
\* json.decoder over the grammar: whitespace, null/true/false, integers,
\* strings without escapes, arrays, objects.  The texts of the model hold no
\* '.', exponent, backslash, NaN or Infinity.
JsonWs == {" ", "\t", "\n", "\r"}

NoParse == [ok |-> FALSE, val |-> None, end |-> 0]

RECURSIVE skip_ws(_, _)
skip_ws(s, i) == IF i <= Len(s) /\ s[i] \in JsonWs THEN skip_ws(s, i + 1) ELSE i

\* py_scanstring: s[i-1] is the opening quote
scanstring(s, i) ==
    LET quotes == {j \in i..Len(s) : s[j] = "\""}
    IN  IF quotes = {} THEN NoParse
        ELSE LET j == CHOOSE q \in quotes : \A r \in quotes : q <= r
             IN  IF \E n \in i..(j - 1) : s[n] \in {"\n", "\t", "\r"}
                 THEN NoParse
                 ELSE [ok |-> TRUE, val |-> Str(SubSeq(s, i, j - 1)), end |-> j + 1]

RECURSIVE DigitsEnd(_, _)
DigitsEnd(s, i) ==
    IF i <= Len(s) /\ s[i] \in DecimalDigits THEN DigitsEnd(s, i + 1) ELSE i

\* NUMBER_RE, integer part: -?(0|[1-9]\d*)
match_number(s, i) ==
    LET neg == i <= Len(s) /\ s[i] = "-"
        d == IF neg THEN i + 1 ELSE i
    IN  IF d > Len(s) \/ s[d] \notin DecimalDigits THEN NoParse
        ELSE LET e == IF s[d] = "0" THEN d + 1 ELSE DigitsEnd(s, d)
                 n == DecimalValue(SubSeq(s, d, e - 1))
             IN  [ok |-> TRUE, val |-> Num(IF neg THEN 0 - n ELSE n), end |-> e]

RECURSIVE scan_once(_, _)
RECURSIVE JSONArray(_, _, _)
RECURSIVE JSONObject(_, _, _)

\* JSONArray: i is the start of the next item, acc the items so far
JSONArray(s, i, acc) ==
    LET item == scan_once(s, i)
    IN  IF ~item.ok THEN NoParse
        ELSE LET e == skip_ws(s, item.end)
                 items == Append(acc, item.val)
             IN  IF e > Len(s) THEN NoParse
                 ELSE IF s[e] = "]"
                      THEN [ok |-> TRUE, val |-> List(items), end |-> e + 1]
                 ELSE IF s[e] = ","
                      THEN JSONArray(s, skip_ws(s, e + 1), items)
                 ELSE NoParse

\* JSONObject: i is the opening quote of the next key, acc the dict so far
JSONObject(s, i, acc) ==
    IF i > Len(s) \/ s[i] # "\"" THEN NoParse
    ELSE LET key == scanstring(s, i + 1)
         IN  IF ~key.ok THEN NoParse
             ELSE LET c == skip_ws(s, key.end)
                  IN  IF c > Len(s) \/ s[c] # ":" THEN NoParse
                      ELSE LET member == scan_once(s, skip_ws(s, c + 1))
                           IN  IF ~member.ok THEN NoParse
                               ELSE LET e == skip_ws(s, member.end)
                                        d == [n \in DOMAIN acc \cup {key.val.v} |->
                                                IF n = key.val.v THEN member.val
                                                ELSE acc[n]]
                                    IN  IF e > Len(s) THEN NoParse
                                        ELSE IF s[e] = "}"
                                             THEN [ok |-> TRUE, val |-> Dict(d), end |-> e + 1]
                                        ELSE IF s[e] = ","
                                             THEN JSONObject(s, skip_ws(s, e + 1), d)
                                        ELSE NoParse

\* scanner.py_make_scanner._scan_once
scan_once(s, i) ==
    IF i > Len(s) THEN NoParse
    ELSE IF s[i] = "\"" THEN scanstring(s, i + 1)
    ELSE IF s[i] = "{"
         THEN LET n == skip_ws(s, i + 1)
              IN  IF n <= Len(s) /\ s[n] = "}"
                  THEN [ok |-> TRUE, val |-> EmptyDict, end |-> n + 1]
                  ELSE JSONObject(s, n, [key \in {} |-> None])
    ELSE IF s[i] = "["
         THEN LET n == skip_ws(s, i + 1)
              IN  IF n <= Len(s) /\ s[n] = "]"
                  THEN [ok |-> TRUE, val |-> List(<<>>), end |-> n + 1]
                  ELSE JSONArray(s, n, <<>>)
    ELSE IF StartsAt(s, i, <<"n", "u", "l", "l">>)
         THEN [ok |-> TRUE, val |-> None, end |-> i + 4]
    ELSE IF StartsAt(s, i, <<"t", "r", "u", "e">>)
         THEN [ok |-> TRUE, val |-> Bool(TRUE), end |-> i + 4]
    ELSE IF StartsAt(s, i, <<"f", "a", "l", "s", "e">>)
         THEN [ok |-> TRUE, val |-> Bool(FALSE), end |-> i + 5]
    ELSE match_number(s, i)

\* json.loads(s) for a string s: a value, or JSONDecodeError (ok = FALSE)
json_loads(s) ==
    LET parsed == scan_once(s, skip_ws(s, 1))
    IN  IF parsed.ok /\ skip_ws(s, parsed.end) = Len(s) + 1
        THEN [ok |-> TRUE, val |-> parsed.val]
        ELSE [ok |-> FALSE, val |-> None]

\* The backquote character (a string of the module cannot hold it).
BQ == "bq"

\* re.search(r"<3 backquotes>json\n(.*?)\n<3 backquotes>", s, re.DOTALL):
\* the leftmost opening fence that has a closing fence after it, then the
\* nearest closing fence.
FenceOpen == <<BQ, BQ, BQ, "j", "s", "o", "n", "\n">>
FenceClose == <<"\n", BQ, BQ, BQ>>

re_search_json_block(s) ==
    LET closes(p) == {q \in (p + 8)..Len(s) : StartsAt(s, q, FenceClose)}
        opens == {p \in 1..Len(s) : StartsAt(s, p, FenceOpen) /\ closes(p) # {}}
    IN  IF opens = {} THEN [found |-> FALSE, group1 |-> <<>>]
        ELSE LET p == CHOOSE o \in opens : \A r \in opens : o <= r
                 q == CHOOSE c \in closes(p) : \A r \in closes(p) : c <= r
             IN  [found |-> TRUE, group1 |-> SubSeq(s, p + 8, q - 1)]

\* The helper at the top of evaluate_hard_gates: (response_json, json_valid)
extract_json(response) ==
    LET whole == json_loads(response)
        match == re_search_json_block(response)
        inner == json_loads(match.group1)
    IN  IF whole.ok THEN [response_json |-> whole.val, json_valid |-> TRUE]
        ELSE IF match.found /\ inner.ok
             THEN [response_json |-> inner.val, json_valid |-> TRUE]
        ELSE [response_json |-> EmptyDict, json_valid |-> FALSE]

\* ----------------------------------------------------- evaluate_hard_gates
\* Keys of the task-definition mappings are written as TLA+ strings.  A gate
\* type, a gate name and each literal fragment of a message is one symbol of
\* a text; responses, targets and terms are spelled character by character.
ContainmentTypes ==
    {Str(<<"crm_contact_match">>), Str(<<"crm_deal_match">>),
     Str(<<"crm_field_check">>), Str(<<"crm_numeric_reference_check">>),
     Str(<<"regex_all">>), Str(<<"regex_any">>), Str(<<"field_equals">>)}

ContainmentKeys ==
    <<"expected_account_id", "expected_contact_id", "expected_email",
      "expected_deal_id", "expected_value", "expected", "patterns">>

\* The compatibility patch testing each legacy list for content
\* (if gates.get("must_contain"): ...) instead of for presence.
normalize_gates_nonempty_only(gates) ==
    LET filled(key) == key \in DOMAIN gates.v /\ IsList(gates.v[key]) /\ gates.v[key].v # <<>>
    IN  IF IsDict(gates)
        THEN List(
               (IF filled("must_contain")
                THEN <<Dict([type |-> Str(<<"crm_contact_match">>),
                             name |-> Str(<<"legacy_must_contain">>),
                             params |-> Dict([expected |-> gates.v["must_contain"]])])>>
                ELSE <<>>)
               \o
               (IF filled("forbidden_terms")
                THEN <<Dict([type |-> Str(<<"forbidden_terms">>),
                             name |-> Str(<<"legacy_forbidden">>),
                             params |-> Dict([terms |-> gates.v["forbidden_terms"]])])>>
                ELSE <<>>))
        ELSE gates

\* The V1 compatibility patch: a dict of legacy lists becomes a gate list.
normalize_gates(gates) ==
    IF IsDict(gates)
    THEN List(
           (IF "must_contain" \in DOMAIN gates.v
            THEN <<Dict([type |-> Str(<<"crm_contact_match">>),
                         name |-> Str(<<"legacy_must_contain">>),
                         params |-> Dict([expected |-> gates.v["must_contain"]])])>>
            ELSE <<>>)
           \o
           (IF "forbidden_terms" \in DOMAIN gates.v
            THEN <<Dict([type |-> Str(<<"forbidden_terms">>),
                         name |-> Str(<<"legacy_forbidden">>),
                         params |-> Dict([terms |-> gates.v["forbidden_terms"]])])>>
            ELSE <<>>))
    ELSE gates

\* for x in value: the items, or TypeError when value is not iterable.  No
\* dict reaches a for loop in the model (hard_gates is normalised first), so
\* its iteration over keys is not spelled out.
iterate(value) ==
    CASE value.k = "list" -> [raised |-> FALSE, items |-> value.v]
      [] value.k = "str" ->
            [raised |-> FALSE, items |-> [i \in 1..Len(value.v) |-> Str(<<value.v[i]>>)]]
      [] value.k = "dict" -> [raised |-> TRUE, items |-> <<>>]
      [] OTHER -> [raised |-> TRUE, items |-> <<>>]

\* x in container: TypeError unless the container is a dict, a list, or a
\* string searched for a string
py_in(x, container) ==
    CASE container.k = "dict" ->
            [raised |-> x.k \in {"list", "dict"},
             value |-> x.k = "str" /\ x.v \in DOMAIN container.v]
      [] container.k = "list" ->
            [raised |-> FALSE,
             value |-> \E i \in 1..Len(container.v) : container.v[i] = x]
      [] container.k = "str" ->
            [raised |-> x.k # "str",
             value |-> x.k = "str" /\ Contains(container.v, x.v)]
      [] OTHER -> [raised |-> TRUE, value |-> FALSE]

\* Variant of Fail that appends the reason and leaves passed as it was.
Fail_keeps_passed(score, reason) ==
    [raised |-> FALSE, passed |-> score.passed,
     failed_reasons |-> Append(score.failed_reasons, reason)]

\* The judgement record: score["passed"], score["failed_reasons"], and
\* whether an exception left the function instead.
Fail(score, reason) ==
    [raised |-> FALSE, passed |-> FALSE,
     failed_reasons |-> Append(score.failed_reasons, reason)]

Raise(score) == [score EXCEPT !.raised = TRUE]

\* 1. json_schema_validate
gate_json_schema(score, gate_name, params, js) ==
    IF ~js.json_valid
    THEN Fail(score, py_str(gate_name) \o <<": Output was not valid JSON.">>)
    ELSE IF ~IsDict(params) THEN Raise(score)
    ELSE LET fields == iterate(Get(params, "required_fields", List(<<>>)))
             tests == [i \in 1..Len(fields.items) |->
                          py_in(fields.items[i], js.response_json)]
             absent(f) == \E i \in 1..Len(fields.items) :
                              fields.items[i] = f /\ ~tests[i].value
             missing == SelectSeq(fields.items, absent)
         IN  IF fields.raised \/ \E i \in 1..Len(tests) : tests[i].raised
             THEN Raise(score)
             ELSE IF missing # <<>>
                  THEN Fail(score, py_str(gate_name) \o <<": Missing keys ">>
                                   \o py_repr(List(missing)))
             ELSE score

\* targets collected from params under ContainmentKeys[n..7]
RECURSIVE collect_targets(_, _)
collect_targets(params, n) ==
    IF n > Len(ContainmentKeys) THEN <<>>
    ELSE LET val == Get(params, ContainmentKeys[n], None)
             here == IF IsList(val) THEN [i \in 1..Len(val.v) |-> py_str(val.v[i])]
                     ELSE IF val # None THEN <<py_str(val)>>
                     ELSE <<>>
         IN  here \o collect_targets(params, n + 1)

\* reasons[i] for each i from n on with bad[i], in order
RECURSIVE failures(_, _, _)
failures(bad, reasons, n) ==
    IF n > Len(reasons) THEN <<>>
    ELSE (IF bad[n] THEN <<reasons[n]>> ELSE <<>>) \o failures(bad, reasons, n + 1)

\* A loop over items in which each bad item appends its reason.
fail_each(score, bad, reasons) ==
    LET new == failures(bad, reasons, 1)
    IN  IF new = <<>> THEN score
        ELSE [raised |-> FALSE, passed |-> FALSE,
              failed_reasons |-> score.failed_reasons \o new]

\* The containment check comparing target and response as they are written
\* (if target not in response).
gate_containment_case_sensitive(score, gate_name, params, response) ==
    IF ~IsDict(params) THEN Raise(score)
    ELSE LET targets == collect_targets(params, 1)
             bad == [i \in 1..Len(targets) |-> ~Contains(response, targets[i])]
             reasons == [i \in 1..Len(targets) |->
                        py_str(gate_name) \o <<": Missing '">> \o targets[i] \o <<"'">>]
         IN  fail_each(score, bad, reasons)

\* 2. universal containment
gate_containment(score, gate_name, params, response) ==
    IF ~IsDict(params) THEN Raise(score)
    ELSE LET targets == collect_targets(params, 1)
             bad == [i \in 1..Len(targets) |->
                        ~Contains(lower(response), lower(targets[i]))]
             reasons == [i \in 1..Len(targets) |->
                        py_str(gate_name) \o <<": Missing '">> \o targets[i] \o <<"'">>]
         IN  fail_each(score, bad, reasons)

\* 3. forbidden terms
gate_forbidden(score, gate_name, params, response) ==
    IF ~IsDict(params) THEN Raise(score)
    ELSE LET terms == iterate(Get(params, "terms", List(<<>>)))
             isStr(i) == terms.items[i].k = "str"
             firstBad == IF \A i \in 1..Len(terms.items) : isStr(i)
                         THEN Len(terms.items) + 1
                         ELSE CHOOSE i \in 1..Len(terms.items) :
                                  ~isStr(i) /\ \A j \in 1..(i - 1) : isStr(j)
             bad == [i \in 1..(firstBad - 1) |->
                        Contains(lower(response), lower(terms.items[i].v))]
             reasons == [i \in 1..(firstBad - 1) |->
                        py_str(gate_name) \o <<": Forbidden term '">>
                        \o terms.items[i].v \o <<"' found">>]
             done == fail_each(score, bad, reasons)
         IN  IF terms.raised THEN Raise(score)
             ELSE IF firstBad <= Len(terms.items) THEN Raise(done)
             ELSE done

\* 4. citation check
gate_citation(score, gate_name, params, response) ==
    IF ~IsDict(params) THEN Raise(score)
    ELSE LET files == Get(params, "must_include_any_of", List(<<>>))
             it == iterate(files)
             tests == [i \in 1..Len(it.items) |-> py_in(it.items[i], Str(response))]
             \* any() stops at the first true test; a test before it may raise
             stops == {i \in 1..Len(tests) : tests[i].raised \/ tests[i].value}
             first == IF stops = {} THEN 0
                      ELSE CHOOSE i \in stops : \A j \in stops : i <= j
         IN  IF it.raised THEN Raise(score)
             ELSE IF first # 0 /\ tests[first].raised THEN Raise(score)
             ELSE IF first = 0
                  THEN Fail(score, py_str(gate_name) \o <<": No citation from ">>
                                   \o py_str(files))
             ELSE score

\* One pass of the gate loop body: gate.get(...) and the dispatch on type.
gate_step(score, gate, response, js) ==
    IF ~IsDict(gate) THEN Raise(score)
    ELSE LET gate_type == Get(gate, "type", None)
             gate_name == Get(gate, "name", None)
             params == Get(gate, "params", EmptyDict)
         IN  IF gate_type = Str(<<"json_schema_validate">>)
                  THEN gate_json_schema(score, gate_name, params, js)
             ELSE IF gate_type \in ContainmentTypes
                  THEN gate_containment(score, gate_name, params, response)
             ELSE IF gate_type = Str(<<"forbidden_terms">>)
                  THEN gate_forbidden(score, gate_name, params, response)
             ELSE IF gate_type = Str(<<"citation_check">>)
                  THEN gate_citation(score, gate_name, params, response)
             ELSE score

\* A gate loop that is left at the first failed gate.
loop_until_failure(score, items, n) == n <= Len(items) /\ score.passed

\* for gate in gates: whether the loop has another gate to take
loop_continues(score, items, n) == n <= Len(items)

\* The gate loop from item n on; an exception ends it.
RECURSIVE gate_loop(_, _, _, _, _)
gate_loop(score, items, n, response, js) ==
    IF score.raised \/ ~loop_continues(score, items, n) THEN score
    ELSE gate_loop(gate_step(score, items[n], response, js), items, n + 1, response, js)

InitialScore == [raised |-> FALSE, passed |-> TRUE, failed_reasons |-> <<>>]

\* evaluate_hard_gates(response, rules): the returned score, or raised
evaluate_hard_gates(response, rules) ==
    LET gates == normalize_gates(Get(rules, "hard_gates", List(<<>>)))
        js == extract_json(response)
        it == iterate(gates)
    IN  IF it.raised THEN Raise(InitialScore)
        ELSE gate_loop(InitialScore, it.items, 1, response, js)

\* ----------------------------------------------------------- grade_quality
\* The judge either raises or replies; the reply's content is text.
JudgeOutcomes ==
    {[raises |-> TRUE, content |-> <<>>]} \cup
    {[raises |-> FALSE, content |-> s] :
        s \in UNION {[1..n -> ReplyAlphabet] : n \in 0..MaxReplyLen}}

\* grade_quality without the handler around the parse: int('') propagates.
grade_quality_parse_unguarded(judge) ==
    IF judge.raises THEN [raised |-> FALSE, value |-> 3]
    ELSE int(filter_isdigit(strip(judge.content)))

\* grade_quality(task_input, agent_response, rubric): the prompt only feeds
\* the judge, whose behaviour is the input here.  try: invoke, strip, keep
\* the digit characters, int(); bare except: return 3.
grade_quality(judge) ==
    IF judge.raises THEN [raised |-> FALSE, value |-> 3]
    ELSE LET score == strip(judge.content)
             parsed == int(filter_isdigit(score))
         IN  IF parsed.raised THEN [raised |-> FALSE, value |-> 3]
             ELSE [raised |-> FALSE, value |-> parsed.value]

\* A gate record of the task definitions.
Gate(type, name, params) ==
    Dict([type |-> Str(<<type>>), name |-> Str(<<name>>), params |-> Dict(params)])

\* No call of grade_quality is in progress.
IdleGrade ==
    /\ gq_judge = [raises |-> TRUE, content |-> <<>>]
    /\ gq_pc = "idle"
    /\ gq_ret = [raised |-> FALSE, value |-> 0]

\* No call of evaluate_hard_gates is in progress.
IdleGates ==
    /\ hg_response = <<>>
    /\ hg_rules = EmptyDict
    /\ hg_pc = "idle"
    /\ hg_gates = <<>>
    /\ hg_i = 1
    /\ hg_json = [response_json |-> EmptyDict, json_valid |-> FALSE]
    /\ hg_score = InitialScore

\* ------------------------------------------------------------ the runner
Agents == <<"Agent A", "Agent B", "Agent C">>

TaskFiles == <<"sales_tasks.yaml", "rfp_tasks.yaml", "meeting_tasks.yaml">>

\* os.path.exists(path) is false
Missing == [k |-> "missing", v |-> 0]

T_email ==
    Dict([task_id |-> Str(<<"t1">>),
          name |-> Str(<<"email-lookup">>),
          input_prompt |-> Str(<<"find X">>),
          eval_rules |-> Dict([
              hard_gates |-> List(<<Gate("crm_contact_match", "has_email",
                                         [expected_email |-> Str(<<"a", "b">>)])>>),
              soft_score_rubric |-> Str(<<"Is the email right?">>)])])

T_shape ==
    Dict([name |-> Str(<<"deal-json">>),
          input_prompt |-> Str(<<"summarise deal">>),
          eval_rules |-> Dict([
              hard_gates |-> List(<<Gate("json_schema_validate", "shape",
                                         [required_fields |-> List(<<Str(<<"a">>)>>)])>>)])])

T_noname ==
    Dict([task_id |-> Str(<<"t3">>),
          input_prompt |-> Str(<<"find Y">>)])

T_noprompt ==
    Dict([task_id |-> Str(<<"t4">>),
          name |-> Str(<<"no-prompt">>)])

\* What yaml.safe_load gives for one task file.
FileContents ==
    { Missing,
      List(<<T_email>>), List(<<T_noname>>), List(<<T_noprompt>>),
      Dict([tasks |-> List(<<T_shape>>)]),
      Dict([version |-> Num(1)]) }

\* The loop of __init__ over task_files from file n on: a missing file is
\* skipped with a warning, a list is taken whole, a dict gives its "tasks".
RECURSIVE load_tasks(_, _)
load_tasks(dir, n) ==
    IF n > Len(TaskFiles) THEN <<>>
    ELSE LET loaded == dir[TaskFiles[n]]
             here == IF loaded = Missing THEN <<>>
                     ELSE IF IsList(loaded) THEN loaded.v
                     ELSE IF IsDict(loaded) /\ "tasks" \in DOMAIN loaded.v
                          THEN loaded.v["tasks"].v
                     ELSE <<>>
         IN  here \o load_tasks(dir, n + 1)

\* The tasks/ directories of the model: at most two tasks in all.
TaskDirs ==
    {d \in [{TaskFiles[n] : n \in 1..Len(TaskFiles)} -> FileContents] :
        Len(load_tasks(d, 1)) <= 2}

\* agent.run(prompt) returns a text, or raises an exception e with str(e)
AgentOutcomes ==
    { [raises |-> FALSE, text |-> <<"A", "b">>],
      [raises |-> TRUE, text |-> <<"5">>] }

\* judge_llm.invoke(prompt) within the run loop
RunJudgeOutcomes ==
    { [raises |-> TRUE, content |-> <<>>],
      [raises |-> FALSE, content |-> <<"4">>] }

Leaderboard == <<"leaderboard.csv">>

\* f"run_trace_{int(time.time())}.json" at a clock reading in ticks
trace_name(now) == <<"run_trace_">> \o IntToText(now \div TicksPerSecond) \o <<".json">>

\* "; ".join(reasons)
RECURSIVE join_reasons(_)
join_reasons(reasons) ==
    IF reasons = <<>> THEN <<>>
    ELSE IF Len(reasons) = 1 THEN reasons[1]
    ELSE reasons[1] \o <<"; ">> \o join_reasons(Tail(reasons))

\* The try/except around agent.run that forgets the exception's message.
agent_call_message_dropped(outcome) ==
    [response |-> IF outcome.raises THEN <<>> ELSE outcome.text,
     error |-> outcome.raises]

\* Lines 261-266: try: response = agent.run(...); error = False
\* except Exception as e: response = str(e); error = True
agent_call(outcome) == [response |-> outcome.text, error |-> outcome.raises]

\* The row appended to self.results (duration_seconds, a difference of two
\* clock readings that nothing reads back, is left out).
result_row(task, agent_name, score, quality, err) ==
    [task_id |-> Get(task, "task_id", Str(<<"unknown">>)),
     task_name |-> task.v["name"],
     agent |-> agent_name,
     passed |-> score.passed,
     quality_score |-> quality,
     fail_reasons |-> join_reasons(score.failed_reasons),
     error |-> err]

\* One call of the log: its argument text, whether it raised, and the text
\* it gave back (for a raising agent, str(e)).
Call(op, arg, raised, out) ==
    [op |-> op, task |-> ti, agent |-> ai, arg |-> arg, raised |-> raised, out |-> out]

NoLocals ==
    /\ ti = 1
    /\ ai = 1
    /\ agent_response = <<>>
    /\ error = FALSE
    /\ hard_score = InitialScore
    /\ quality_score = 0

\* The runner is not used.
IdleRun ==
    /\ task_dir = [f \in {TaskFiles[n] : n \in 1..Len(TaskFiles)} |-> Missing]
    /\ tasks = <<>>
    /\ results = <<>>
    /\ pc = "idle"
    /\ NoLocals
    /\ calls = <<>>
    /\ outputs = [f \in {} |-> 0]
    /\ clock = 0
    /\ run_no = 0

\* After BenchmarkRunner(): the tasks are loaded, the run log is empty.
InitRun ==
    /\ task_dir \in TaskDirs
    /\ tasks = load_tasks(task_dir, 1)
    /\ results = <<>>
    /\ pc = "task"
    /\ NoLocals
    /\ calls = <<>>
    /\ outputs = [f \in {} |-> 0]
    /\ clock = 0
    /\ run_no = 1
    /\ IdleGrade
    /\ IdleGates

\* Lines 254-255: the next task of the outer loop; task['name'] is printed.
RbTask ==
    /\ pc = "task"
    /\ ti <= Len(tasks)
    /\ pc' = IF "name" \in DOMAIN tasks[ti].v THEN "agent" ELSE "crashed"
    /\ ai' = 1
    /\ UNCHANGED <<task_dir, tasks, results, ti, agent_response, error, hard_score,
                   quality_score, calls, outputs, clock, run_no, gradeVars, gateVars>>

\* Variant of RbAgent in which a raising agent is called a second time
\* before its failure is recorded.
RbAgent_retries ==
    /\ pc = "agent"
    /\ IF "input_prompt" \in DOMAIN tasks[ti].v
       THEN \E outcome \in AgentOutcomes :
              LET call == Call("agent", tasks[ti].v["input_prompt"].v,
                               outcome.raises, outcome.text)
              IN  /\ agent_response' = agent_call(outcome).response
                  /\ error' = agent_call(outcome).error
                  /\ calls' = IF outcome.raises THEN calls \o <<call, call>>
                                                ELSE Append(calls, call)
       ELSE /\ agent_response' = <<"'", "input_prompt", "'">>
            /\ error' = TRUE
            /\ calls' = calls
    /\ pc' = "gates"
    /\ UNCHANGED <<task_dir, tasks, results, ti, ai, hard_score, quality_score,
                   outputs, clock, run_no, gradeVars, gateVars>>

\* Lines 257-268: the next agent runs on the task's prompt.  A task without
\* input_prompt raises KeyError inside the try, before the agent is called.
RbAgent ==
    /\ pc = "agent"
    /\ IF "input_prompt" \in DOMAIN tasks[ti].v
       THEN \E outcome \in AgentOutcomes :
              /\ agent_response' = agent_call(outcome).response
              /\ error' = agent_call(outcome).error
              /\ calls' = Append(calls, Call("agent", tasks[ti].v["input_prompt"].v,
                                             outcome.raises, outcome.text))
       ELSE /\ agent_response' = <<"'", "input_prompt", "'">>
            /\ error' = TRUE
            /\ calls' = calls
    /\ pc' = "gates"
    /\ UNCHANGED <<task_dir, tasks, results, ti, ai, hard_score, quality_score,
                   outputs, clock, run_no, gradeVars, gateVars>>

\* Line 271: hard_score = self.evaluate_hard_gates(response, eval_rules)
RbGates ==
    /\ pc = "gates"
    /\ LET score == evaluate_hard_gates(agent_response, Get(tasks[ti], "eval_rules", EmptyDict))
       IN  /\ hard_score' = score
           /\ pc' = IF score.raised THEN "crashed" ELSE "judge"
    /\ calls' = Append(calls, Call("gates", agent_response, hard_score'.raised, <<>>))
    /\ UNCHANGED <<task_dir, tasks, results, ti, ai, agent_response, error, quality_score,
                   outputs, clock, run_no, gradeVars, gateVars>>

\* Line 272: quality_score = self.grade_quality(task['input_prompt'], ...)
RbJudge ==
    /\ pc = "judge"
    /\ IF "input_prompt" \in DOMAIN tasks[ti].v
       THEN \E judge \in RunJudgeOutcomes :
              /\ quality_score' = grade_quality(judge).value
              /\ calls' = Append(calls, Call("judge", agent_response, judge.raises,
                                             judge.content))
              /\ pc' = "append"
       ELSE /\ pc' = "crashed"
            /\ UNCHANGED <<quality_score, calls>>
    /\ UNCHANGED <<task_dir, tasks, results, ti, ai, agent_response, error, hard_score,
                   outputs, clock, run_no, gradeVars, gateVars>>

\* The append of lines 274-283 written as an assignment of a one-row list.
RbAppend_replaces_log ==
    /\ pc = "append"
    /\ results' = <<result_row(tasks[ti], Agents[ai], hard_score, quality_score, error)>>
    /\ calls' = Append(calls, Call("append", agent_response, FALSE, <<>>))
    /\ IF ai < Len(Agents)
       THEN /\ ai' = ai + 1
            /\ pc' = "agent"
            /\ ti' = ti
       ELSE /\ ai' = ai
            /\ pc' = "task"
            /\ ti' = ti + 1
    /\ UNCHANGED <<task_dir, tasks, agent_response, error, hard_score, quality_score,
                   outputs, clock, run_no, gradeVars, gateVars>>

\* Lines 274-284: the row is appended; then the next agent, or the next task.
RbAppend ==
    /\ pc = "append"
    /\ results' = Append(results,
                         result_row(tasks[ti], Agents[ai], hard_score, quality_score, error))
    /\ calls' = Append(calls, Call("append", agent_response, FALSE, <<>>))
    /\ IF ai < Len(Agents)
       THEN /\ ai' = ai + 1
            /\ pc' = "agent"
            /\ ti' = ti
       ELSE /\ ai' = ai
            /\ pc' = "task"
            /\ ti' = ti + 1
    /\ UNCHANGED <<task_dir, tasks, agent_response, error, hard_score, quality_score,
                   outputs, clock, run_no, gradeVars, gateVars>>

\* Line 254, loop exhausted: run_benchmark returns to __main__.
RbReturn ==
    /\ pc = "task"
    /\ ti > Len(tasks)
    /\ pc' = "returned"
    /\ UNCHANGED <<task_dir, tasks, results, loopVars, calls, outputs, clock, run_no,
                   gradeVars, gateVars>>

\* What a written file holds: the run log of the run that wrote it.
Written == [run |-> run_no, rows |-> Len(results)]

\* Lines 286-308: leaderboard.csv and run_trace_<int(time.time())>.json are
\* opened for writing, which replaces a file of that name.
save_results ==
    /\ pc = "returned"
    /\ \E now \in clock..MaxClock :
         /\ clock' = now
         /\ outputs' = [f \in DOMAIN outputs \cup {Leaderboard, trace_name(now)} |->
                          IF f \in {Leaderboard, trace_name(now)} THEN Written
                          ELSE outputs[f]]
    /\ pc' = "saved"
    /\ UNCHANGED <<task_dir, tasks, results, loopVars, calls, run_no, gradeVars, gateVars>>

\* Lines 310-313 once more: a new process, a new runner, the same directories.
Restart ==
    /\ pc \in {"saved", "crashed"}
    /\ run_no < MaxRuns
    /\ run_no' = run_no + 1
    /\ tasks' = load_tasks(task_dir, 1)
    /\ results' = <<>>
    /\ calls' = <<>>
    /\ pc' = "task"
    /\ ti' = 1
    /\ ai' = 1
    /\ agent_response' = <<>>
    /\ error' = FALSE
    /\ hard_score' = InitialScore
    /\ quality_score' = 0
    /\ UNCHANGED <<task_dir, outputs, clock, gradeVars, gateVars>>

Next == RbTask \/ RbAgent \/ RbGates \/ RbJudge \/ RbAppend \/ RbReturn \/ save_results

Spec == InitRun /\ [][Next]_vars

\* Repeated runs over one outputs/ directory, each on an empty or one-task
\* tasks/ directory.
InitRuns == InitRun /\ Len(tasks) <= 1

NextRuns == Next \/ Restart

SpecRuns == InitRuns /\ [][NextRuns]_vars

InitGrade ==
    /\ gq_judge \in JudgeOutcomes
    /\ gq_pc = "call"
    /\ gq_ret = [raised |-> FALSE, value |-> 0]
    /\ IdleGates
    /\ IdleRun

GradeCall ==
    /\ gq_pc = "call"
    /\ gq_pc' = "done"
    /\ gq_ret' = grade_quality(gq_judge)
    /\ UNCHANGED <<gq_judge, gateVars, runVars>>

NextGrade == GradeCall

SpecGrade == InitGrade /\ [][NextGrade]_vars

\* ------------------------------------------ evaluate_hard_gates, stepwise
\* Responses an agent can hand to the validator.
Responses ==
    { <<>>,
      <<"A", "b", " ", "5">>,
      <<"5">>,
      <<"\"", "a", "b", "\"">>,
      <<"{", "\"", "a", "\"", ":", "5", "}">>,
      <<"[", "\"", "a", "\"", "]">>,
      <<"x", BQ, BQ, BQ, "j", "s", "o", "n", "\n",
        "{", "\"", "b", "\"", ":", "5", "}", "\n", BQ, BQ, BQ>> }

\* Well-formed gate records, one per kind of check and one of a future type.
GatePool ==
    { Gate("json_schema_validate", "shape",
           [required_fields |-> List(<<Str(<<"a">>), Str(<<"b">>)>>)]),
      Gate("crm_contact_match", "has_email",
           [expected_email |-> Str(<<"a", "b">>),
            expected |-> List(<<Num(5), Str(<<"z">>)>>)]),
      Gate("field_equals", "eq", [expected_value |-> Num(7)]),
      Gate("forbidden_terms", "no_pii", [terms |-> List(<<Str(<<"B">>)>>)]),
      Gate("citation_check", "cite",
           [must_include_any_of |-> List(<<Str(<<"A", "b">>), Str(<<"q">>)>>)]),
      Gate("sentiment_check", "tone", [min |-> Num(1)]) }

GateLists == UNION {[1..n -> GatePool] : n \in 0..MaxGates}

\* Values of hard_gates that are neither a gate list nor a legacy mapping.
MalformedGates ==
    { None, Num(7), Bool(TRUE), Str(<<>>), Str(<<"a", "b">>),
      List(<<Str(<<"a">>)>>), List(<<None>>) }

\* Legacy two-list mappings.
LegacyGates ==
    { Dict([must_contain |-> List(<<Str(<<"a", "b">>), Str(<<"z">>)>>)]),
      Dict([forbidden_terms |-> List(<<Str(<<"B">>)>>)]),
      Dict([must_contain |-> List(<<Str(<<"5">>)>>),
            forbidden_terms |-> List(<<Str(<<"q">>)>>)]),
      Dict([must_contain |-> List(<<>>)]),
      Dict([must_contain |-> List(<<Str(<<"z">>)>>), forbidden_terms |-> List(<<>>)]),
      EmptyDict }

RulesPool ==
    {EmptyDict} \cup
    {Dict([hard_gates |-> g]) :
        g \in {List(l) : l \in GateLists} \cup MalformedGates \cup LegacyGates}

InitGates ==
    /\ hg_response \in Responses
    /\ hg_rules \in RulesPool
    /\ hg_pc = "start"
    /\ hg_gates = <<>>
    /\ hg_i = 1
    /\ hg_json = [response_json |-> EmptyDict, json_valid |-> FALSE]
    /\ hg_score = InitialScore
    /\ IdleGrade
    /\ IdleRun

\* Lines 145-189: read and normalise the gates, build the score, extract the
\* JSON, and start the for loop (which raises on a value it cannot iterate).
HgBegin ==
    /\ hg_pc = "start"
    /\ LET it == iterate(normalize_gates(Get(hg_rules, "hard_gates", List(<<>>))))
       IN  /\ hg_gates' = it.items
           /\ hg_pc' = IF it.raised THEN "raised" ELSE "loop"
    /\ hg_json' = extract_json(hg_response)
    /\ hg_score' = InitialScore
    /\ hg_i' = 1
    /\ UNCHANGED <<hg_response, hg_rules, gradeVars, runVars>>

\* Lines 189-233: one pass of the loop body.
HgGate ==
    /\ hg_pc = "loop"
    /\ loop_continues(hg_score, hg_gates, hg_i)
    /\ LET next == gate_step(hg_score, hg_gates[hg_i], hg_response, hg_json)
       IN  /\ hg_score' = next
           /\ hg_pc' = IF next.raised THEN "raised" ELSE "loop"
    /\ hg_i' = hg_i + 1
    /\ UNCHANGED <<hg_response, hg_rules, hg_gates, hg_json, gradeVars, runVars>>

\* Line 235: return score.
HgReturn ==
    /\ hg_pc = "loop"
    /\ ~loop_continues(hg_score, hg_gates, hg_i)
    /\ hg_pc' = "returned"
    /\ UNCHANGED <<hg_response, hg_rules, hg_gates, hg_i, hg_json, hg_score, gradeVars, runVars>>

NextGates == HgBegin \/ HgGate \/ HgReturn

SpecGates == InitGates /\ [][NextGates]_vars

\* ------------------------------------------------- claims on grade_quality
HasDigit(s) == \E i \in 1..Len(s) : isdigit(s[i])

\* The first maximal run of consecutive digit characters of s (s has one).
FirstDigitRun(s) ==
    LET ds == {i \in 1..Len(s) : isdigit(s[i])}
        first == CHOOSE i \in ds : \A j \in ds : i <= j
        stop == {i \in first..Len(s) : ~isdigit(s[i])}
        last == IF stop = {} THEN Len(s)
                ELSE (CHOOSE i \in stop : \A j \in stop : i <= j) - 1
    IN  SubSeq(s, first, last)

\* C6: for every judge reply and every judge failure, grade_quality returns
\* an integer in the range 1..5.
C6_ScoreInRange == gq_pc = "done" => gq_ret.value \in 1..5

\* C7: when the judge reply contains a digit, grade_quality returns the
\* integer value of the first maximal run of consecutive digits; digits
\* after a later non-digit character do not affect the result.
C7_FirstDigitRunOnly ==
    (gq_pc = "done" /\ ~gq_judge.raises /\ HasDigit(gq_judge.content))
        => LET first == int(FirstDigitRun(gq_judge.content))
           IN  ~first.raised => gq_ret.value = first.value

\* C8: grade_quality never raises; when the judge invocation raises or the
\* reply holds no digit character, it returns 3.
C8_NeverRaisesDefault3 ==
    gq_pc = "done" =>
        /\ ~gq_ret.raised
        /\ (gq_judge.raises \/ ~HasDigit(gq_judge.content)) => gq_ret.value = 3

\* C8 witness: a non-empty reply without any digit has been graded.
C8_Witness ==
    /\ gq_pc = "done"
    /\ ~gq_judge.raises
    /\ gq_judge.content # <<>>
    /\ ~HasDigit(gq_judge.content)
    /\ gq_ret.value = 3

\* ------------------------------------------- claims on evaluate_hard_gates
HgFinished == hg_pc \in {"returned", "raised"}

\* hard_gates is present and is neither a list of gate records nor a mapping
MalformedRules(rules) ==
    LET gates == Get(rules, "hard_gates", List(<<>>))
    IN  /\ ~IsDict(gates)
        /\ ~(IsList(gates) /\ \A i \in 1..Len(gates.v) : IsDict(gates.v[i]))

\* C4: for every hard_gates value that is neither a sequence of gate records
\* nor the legacy mapping, evaluate_hard_gates treats the gate set as empty:
\* it returns passed = true with no reasons and does not raise.
C4_MalformedGatesDegrade ==
    (HgFinished /\ MalformedRules(hg_rules))
        => /\ hg_pc = "returned"
           /\ hg_score.passed
           /\ hg_score.failed_reasons = <<>>

Range(s) == {s[i] : i \in 1..Len(s)}

\* the multiset of the items of a sequence
SeqToBag(s) == [x \in Range(s) |-> Cardinality({i \in 1..Len(s) : s[i] = x})]

IndexPermutations(n) == {p \in [1..n -> 1..n] : \A i, j \in 1..n : p[i] = p[j] => i = j}

\* C10: for every response and every two gate sequences that are
\* permutations of each other, evaluate_hard_gates gives the same passed
\* value and the same multiset of failed reasons.
C10_GateOrderIrrelevant ==
    (HgFinished /\ Get(hg_rules, "hard_gates", None).k = "list" /\ ~MalformedRules(hg_rules))
        => LET gates == hg_rules.v["hard_gates"].v
           IN  \A p \in IndexPermutations(Len(gates)) :
                 LET permuted == [i \in 1..Len(gates) |-> gates[p[i]]]
                     other == evaluate_hard_gates(
                                  hg_response, Dict([hard_gates |-> List(permuted)]))
                 IN  /\ other.raised = (hg_pc = "raised")
                     /\ ~other.raised =>
                          /\ other.passed = hg_score.passed
                          /\ SeqToBag(other.failed_reasons) = SeqToBag(hg_score.failed_reasons)

\* C10 witness: two different gates have both failed, so the other order
\* returns the reasons in another order.
C10_Witness ==
    /\ hg_pc = "returned"
    /\ Get(hg_rules, "hard_gates", None).k = "list"
    /\ Len(hg_gates) = 2
    /\ Len(hg_score.failed_reasons) >= 2
    /\ evaluate_hard_gates(hg_response,
                           Dict([hard_gates |-> List(<<hg_gates[2], hg_gates[1]>>)])).failed_reasons
         # hg_score.failed_reasons

\* ------------------------------------------------- claims on the run loop
HasFields(task) == {"name", "input_prompt"} \subseteq DOMAIN task.v

\* name and input_prompt are present and hard_gates, when given, is a list
\* of gate records
WellFormedTask(task) ==
    /\ HasFields(task)
    /\ ~MalformedRules(Get(task, "eval_rules", EmptyDict))

\* C1: for any list of well-formed tasks and any combination of raising
\* agents and raising judges, run_benchmark reaches its end without raising
\* (and save_results then writes the summary and the trace).
C1_RunAlwaysCompletes ==
    (\A n \in 1..Len(tasks) : WellFormedTask(tasks[n]))
        => /\ pc # "crashed"
           /\ pc = "saved" =>
                /\ Leaderboard \in DOMAIN outputs
                /\ \E f \in DOMAIN outputs : f # Leaderboard

\* the row of pair number k is about task (k-1) div 3 + 1 and the agent
\* (k-1) mod 3 + 1 of Agent A, Agent B, Agent C
RowOfPair(k) ==
    LET task == tasks[((k - 1) \div 3) + 1]
    IN  /\ results[k].task_name = task.v["name"]
        /\ results[k].task_id = Get(task, "task_id", Str(<<"unknown">>))
        /\ results[k].agent = <<"Agent A", "Agent B", "Agent C">>[((k - 1) % 3) + 1]

\* C2: after run_benchmark on a fresh runner the run log holds exactly one
\* row per (task, agent) pair, tasks in load order outermost and agents
\* A, B, C innermost; a row once appended is never changed or removed.
C2_RunLogOrdered ==
    /\ [](/\ Len(results) <= 3 * Len(tasks)
          /\ \A k \in 1..Len(results) : RowOfPair(k)
          /\ pc \in {"returned", "saved"} => Len(results) = 3 * Len(tasks))
    /\ [][/\ Len(results') >= Len(results)
          /\ SubSeq(results', 1, Len(results)) = results]_vars

\* C2 witness: two different tasks have been run by all three agents.
C2_Witness ==
    /\ pc = "returned"
    /\ Len(tasks) = 2
    /\ tasks[1].v["name"] # tasks[2].v["name"]
    /\ Len(results) = 6

CallsOf(op) == SelectSeq(calls, LAMBDA c : c.op = op)

\* C3: in every row, error is true iff the agent's run call raised; when it
\* raised, the text handed to evaluate_hard_gates and to grade_quality is the
\* exception's message, and passed and quality_score come from that text.
C3_ErrorFlagAndSubstitutedText ==
    LET agentCalls == CallsOf("agent")
        gateCalls == CallsOf("gates")
        judgeCalls == CallsOf("judge")
    IN  \A k \in 1..Len(results) :
          LET a == agentCalls[k]
              g == gateCalls[k]
              j == judgeCalls[k]
              score == evaluate_hard_gates(a.out, Get(tasks[a.task], "eval_rules", EmptyDict))
          IN  /\ results[k].error = a.raised
              /\ a.raised =>
                   /\ g.arg = a.out
                   /\ j.arg = a.out
                   /\ results[k].passed = score.passed
                   /\ results[k].fail_reasons = join_reasons(score.failed_reasons)
                   /\ results[k].quality_score
                        = grade_quality([raises |-> j.raised, content |-> j.out]).value

\* C3 witness: a row of an agent that raised, failed by a gate on the
\* message, next to a row of an agent that returned.
C3_Witness ==
    \E k, n \in 1..Len(results) :
        /\ results[k].error /\ ~results[k].passed
        /\ ~results[n].error /\ results[n].passed

\* a task file is missing, or a loaded task lacks name or input_prompt
ConfigError ==
    \/ \E f \in DOMAIN task_dir : task_dir[f] = Missing
    \/ \E n \in 1..Len(tasks) : ~HasFields(tasks[n])

\* C5: a configuration error is fatal at startup: with a missing task file
\* or a task lacking name or input_prompt, the error propagates before the
\* run loop invokes any agent on any task.
C5_ConfigErrorBeforeAnyAgent ==
    ConfigError => \A n \in 1..Len(calls) : calls[n].op # "agent"

\* C9: no trace file is ever overwritten: each save writes its trace under a
\* file name no earlier save used; only leaderboard.csv is replaced.
C9_TraceNeverOverwritten ==
    [][\A f \in DOMAIN outputs \ {Leaderboard} :
          f \in DOMAIN outputs' /\ outputs'[f] = outputs[f]]_vars

\* ------------------------------------------------ claims on normalisation
\* hard_gates of the call in progress is a legacy mapping, and the patch of
\* lines 151-165 has run
LegacyNormalized == hg_pc # "start" /\ IsDict(Get(hg_rules, "hard_gates", None))

HgLegacy == hg_rules.v["hard_gates"].v

NonEmptyList(key) ==
    key \in DOMAIN HgLegacy /\ IsList(HgLegacy[key]) /\ HgLegacy[key].v # <<>>

\* the gates of type t among the normalised gates
GatesOfType(t) == SelectSeq(hg_gates, LAMBDA g : g.v["type"] = Str(<<t>>))

\* The normalised gates are: one containment gate iff mc, then one
\* forbidden-terms gate iff ft, each carrying its legacy list.
NormalizedAs(mc, ft) ==
    /\ Len(hg_gates) = (IF mc THEN 1 ELSE 0) + (IF ft THEN 1 ELSE 0)
    /\ Len(GatesOfType("crm_contact_match")) = (IF mc THEN 1 ELSE 0)
    /\ Len(GatesOfType("forbidden_terms")) = (IF ft THEN 1 ELSE 0)
    /\ mc => /\ hg_gates[1].v["type"] = Str(<<"crm_contact_match">>)
             /\ hg_gates[1].v["name"] = Str(<<"legacy_must_contain">>)
             /\ DOMAIN hg_gates[1].v["params"].v = {"expected"}
             /\ hg_gates[1].v["params"].v["expected"] = HgLegacy["must_contain"]
    /\ ft => LET g == hg_gates[Len(hg_gates)]
             IN  /\ g.v["type"] = Str(<<"forbidden_terms">>)
                 /\ g.v["name"] = Str(<<"legacy_forbidden">>)
                 /\ DOMAIN g.v["params"].v = {"terms"}
                 /\ g.v["params"].v["terms"] = HgLegacy["forbidden_terms"]

\* C11 as stated: normalising a legacy gate set yields the containment gate
\* exactly when must_contain is a non-empty list and the forbidden-terms
\* gate exactly when forbidden_terms is a non-empty list, at most one of
\* each, in that order; an absent or empty list produces no gate.
C11_GateIffNonEmptyList ==
    LegacyNormalized => NormalizedAs(NonEmptyList("must_contain"),
                                     NonEmptyList("forbidden_terms"))

\* C11 as amended: normalising a legacy gate set yields the containment gate
\* exactly when the key must_contain is present and the forbidden-terms gate
\* exactly when the key forbidden_terms is present, an empty list included,
\* at most one of each, in that order; an absent key produces no gate.
C11_GateIffKeyPresent ==
    LegacyNormalized => NormalizedAs("must_contain" \in DOMAIN HgLegacy,
                                     "forbidden_terms" \in DOMAIN HgLegacy)

\* C11 witness: a legacy mapping with an empty list has been normalised
\* into a gate carrying that empty list.
C11_Witness ==
    /\ LegacyNormalized
    /\ \E key \in DOMAIN HgLegacy : HgLegacy[key] = List(<<>>)
    /\ \E n \in 1..Len(hg_gates) :
          \E key \in DOMAIN hg_gates[n].v["params"].v :
              hg_gates[n].v["params"].v[key] = List(<<>>)

\* ----------------------------------------------- claims on the gate kinds
\* The loop is about to take a gate record of one of the given types.
AtGateOfType(types) ==
    /\ hg_pc = "loop"
    /\ hg_i <= Len(hg_gates)
    /\ IsDict(hg_gates[hg_i])
    /\ Get(hg_gates[hg_i], "type", None) \in types

\* the top-level keys of a parsed JSON value: those of an object, else none
TopLevelKeys(value) == IF IsDict(value) THEN DOMAIN value.v ELSE {}

\* The reasons C12 gives for the json_schema_validate gate the loop is at.
JsonGateReasons ==
    LET gate == hg_gates[hg_i]
        name == gate.v["name"].v
        fields == gate.v["params"].v["required_fields"].v
        missing == SelectSeq(fields, LAMBDA f : f.v \notin TopLevelKeys(hg_json.response_json))
    IN  IF ~hg_json.json_valid THEN <<name \o <<": Output was not valid JSON.">>>>
        ELSE IF missing # <<>>
             THEN <<name \o <<": Missing keys ">> \o py_repr(List(missing))>>
        ELSE <<>>

\* C12: a json_schema_validate gate appends exactly one reason
\* '{name}: Output was not valid JSON.' when no JSON could be extracted, and
\* otherwise exactly one reason '{name}: Missing keys {list}' listing the
\* required fields that are not top-level keys of the parsed JSON, or
\* nothing when every required field is a key.
C12_JsonGateReasons ==
    [][AtGateOfType({Str(<<"json_schema_validate">>)})
          => /\ hg_pc' # "raised"
             /\ hg_score'.failed_reasons = hg_score.failed_reasons \o JsonGateReasons]_vars

\* The targets C13 names: for each of the seven recognised keys in turn, the
\* value under it, or each item of it when it is a list, as a string.
RECURSIVE TargetsFrom(_, _)
TargetsFrom(params, keys) ==
    IF keys = <<>> THEN <<>>
    ELSE LET found == Head(keys) \in DOMAIN params /\ params[Head(keys)] # None
             value == params[Head(keys)]
             texts == IF ~found THEN <<>>
                      ELSE IF IsList(value) THEN [n \in 1..Len(value.v) |-> py_str(value.v[n])]
                      ELSE <<py_str(value)>>
         IN  texts \o TargetsFrom(params, Tail(keys))

\* The reasons C13 gives for the containment gate the loop is at.
ContainmentGateReasons ==
    LET gate == hg_gates[hg_i]
        targets == TargetsFrom(gate.v["params"].v,
                       <<"expected_account_id", "expected_contact_id", "expected_email",
                         "expected_deal_id", "expected_value", "expected", "patterns">>)
        absent == SelectSeq(targets,
                      LAMBDA t : \A n \in 1..(Len(hg_response) + 1) :
                                    ~StartsAt(lower(hg_response), n, lower(t)))
    IN  [n \in 1..Len(absent) |->
            gate.v["name"].v \o <<": Missing '">> \o absent[n] \o <<"'">>]

SevenContainmentTypes ==
    {Str(<<"crm_contact_match">>), Str(<<"crm_deal_match">>), Str(<<"crm_field_check">>),
     Str(<<"crm_numeric_reference_check">>), Str(<<"regex_all">>), Str(<<"regex_any">>),
     Str(<<"field_equals">>)}

\* C13: a gate of any of the seven containment types gives the same verdict
\* whichever of the seven types it carries: it appends one reason
\* '{name}: Missing '{target}'' for each target that is not a
\* case-insensitive substring of the response, and nothing exactly when
\* every target occurs.
C13_ContainmentUniform ==
    [][AtGateOfType(SevenContainmentTypes)
          => /\ hg_pc' = "loop"
             /\ hg_score'.failed_reasons = hg_score.failed_reasons \o ContainmentGateReasons
             /\ hg_score'.passed = (hg_score.passed /\ ContainmentGateReasons = <<>>)
             /\ \A t \in SevenContainmentTypes :
                   gate_step(hg_score,
                             Dict([hg_gates[hg_i].v EXCEPT !["type"] = t]),
                             hg_response, hg_json) = hg_score']_vars

\* C13 witness: a containment gate has met a response that holds one of its
\* targets in another case and lacks another target.
C13_Witness ==
    /\ hg_pc = "loop"
    /\ hg_i = 2
    /\ Get(hg_gates[1], "type", None) \in SevenContainmentTypes
    /\ Get(hg_gates[1].v["params"], "expected_email", None) = Str(<<"a", "b">>)
    /\ hg_score.failed_reasons = <<<<"has_email", ": Missing '", "z", "'">>>>
    /\ Contains(lower(hg_response), <<"a", "b">>)
    /\ ~Contains(hg_response, <<"a", "b">>)

\* the n-th call of a run: its step and the pair it belongs to
StepOfCall(n) == <<"agent", "gates", "judge", "append">>[((n - 1) % 4) + 1]
PairOfCall(n) == ((n - 1) \div 4) + 1

\* C14: in run_benchmark every (task, agent) pair goes through the agent
\* call, the hard-gate evaluation, the judge call and the row append, in
\* that order and each exactly once, whether or not the agent or the judge
\* raised; the four steps of a pair all come before the agent call of the
\* next pair, and save_results writes only after the last pair's row has
\* been appended.
C14_PairStepsInOrder ==
    (\A t \in 1..Len(tasks) : HasFields(tasks[t]))
        => /\ \A n \in 1..Len(calls) :
                /\ calls[n].op = StepOfCall(n)
                /\ calls[n].task = ((PairOfCall(n) - 1) \div 3) + 1
                /\ calls[n].agent = ((PairOfCall(n) - 1) % 3) + 1
           /\ pc \in {"returned", "saved"} => Len(calls) = 4 * 3 * Len(tasks)
           /\ DOMAIN outputs # {} =>
                /\ pc = "saved"
                /\ Len(results) = 3 * Len(tasks)
                /\ Len(calls) = 4 * Len(results)

\* C14 witness: a run over two tasks in which an agent raised and a judge
\* raised has been saved.
C14_Witness ==
    /\ pc = "saved"
    /\ Len(tasks) = 2
    /\ Len(calls) = 24
    /\ \E n \in 1..Len(calls) : calls[n].op = "agent" /\ calls[n].raised
    /\ \E n \in 1..Len(calls) : calls[n].op = "judge" /\ calls[n].raised
    /\ DOMAIN outputs # {}

\* C15: at every step of the gate loop of evaluate_hard_gates and at its
\* return, passed is true exactly when failed_reasons is empty; passed
\* never goes from false back to true, and failed_reasons only grows by
\* appends.
C15_PassedIffNoReasons ==
    /\ [](hg_pc \in {"loop", "returned", "raised"}
            => (hg_score.passed <=> hg_score.failed_reasons = <<>>))
    /\ [][hg_pc = "loop"
            => /\ hg_score'.passed => hg_score.passed
               /\ Len(hg_score'.failed_reasons) >= Len(hg_score.failed_reasons)
               /\ SubSeq(hg_score'.failed_reasons, 1, Len(hg_score.failed_reasons))
                     = hg_score.failed_reasons]_vars

\* C15 witness: the loop has returned after two gates, the first of which
\* passed and the second of which failed.
C15_Witness ==
    /\ hg_pc = "returned"
    /\ hg_i = 3
    /\ ~hg_score.passed
    /\ hg_score.failed_reasons # <<>>
    /\ gate_step(InitialScore, hg_gates[1], hg_response, hg_json) = InitialScore
    /\ Get(hg_gates[1], "type", None) # Str(<<"sentiment_check">>)

\* C16: for every string response, also one whose text parses as a JSON
\* value that is not an object, and every sequence of well-formed gate
\* records, evaluate_hard_gates returns a verdict and does not raise.
C16_NeverRaisesOnAnyResponse ==
    ~MalformedRules(hg_rules) => hg_pc # "raised"

====
